---- MODULE Spec2Model ----
(***************************************************************************)
(* Model of the sqlc/squirrel query-interception example:                  *)
(*   - builder.Parse / stripComments / unquote  (src/builder/parse.go)     *)
(*   - the selector and selecter interceptors   (src/builder/parse.go)     *)
(*   - SelectForQuery / Select                  (src/builder/db.go)        *)
(*   - the tutorial wrappers ListUsers, FindUser, ListUserPosts,           *)
(*     FindUserPost                             (src/builder/parse_test.go)*)
(* A text is a sequence of one-character strings.                          *)
(***************************************************************************)
EXTENDS Integers, Sequences, FiniteSets, TLC

VARIABLES
  stmt,                  \* Parse: the text handed to Parse
  gen,                   \* Parse: how that text was put together
  parsed,                \* Parse: whether Parse has been called
  result,                \* Parse: what it returned
  listUsers,             \* the canonical statement of ListUsers
  listUserPosts,         \* the canonical statement of ListUserPosts
  listUsersBuilder,      \* package variable of tutorial: a base skeleton
  listUserPostsBuilder,  \* package variable of tutorial: a base skeleton
  icpt,                  \* the interceptor last built
  call,                  \* the last call made on it
  rawCall,               \* what the wrapped handle received from that call
  ret,                   \* how that call returned
  api,                   \* the last call of a wrapper of package tutorial
  goroutines             \* the wrapper calls in progress, one per goroutine

parseVars == <<stmt, gen, parsed, result>>

baseVars == <<listUsers, listUserPosts, listUsersBuilder, listUserPostsBuilder>>

dbVars == <<icpt, call, rawCall, ret, api>>

goVars == <<goroutines>>

vars == <<parseVars, baseVars, dbVars, goVars>>

----------------------------------------------------------------------------
(* Characters                                                              *)

\* the characters the regexp class \s matches (RE2: [\t\n\f\r ])
ReSpace == {" ", "\t", "\n", "\r", "\f"}

\* the characters strings.TrimSpace removes: unicode.IsSpace, which adds the
\* vertical tab (written "VT") to the class above
UnicodeSpace == ReSpace \cup {"VT"}

\* the backtick character (a string literal of the module cannot hold it)
Backtick == "BACKTICK"

\* the quote characters unquote knows
QuoteChars == {Backtick, "\"", "'"}

\* ToLower with the i flag of the pattern forgotten
ToLower_CaseSensitive(c) == c

\* (?i): case folding of the letters of the two keywords
ToLower(c) ==
  CASE c = "S" -> "s" [] c = "E" -> "e" [] c = "L" -> "l" [] c = "C" -> "c"
    [] c = "T" -> "t" [] c = "F" -> "f" [] c = "R" -> "r" [] c = "O" -> "o"
    [] c = "M" -> "m" [] OTHER -> c

\* s[from..to-1] with Go's half-open, 0-based slice bounds translated to
\* 1-based positions: Slice(s, i, j) is the text at positions i .. j-1
Slice(s, i, j) == SubSeq(s, i, j - 1)

\* the literal word w matches s at position i, ignoring case
MatchWordAt(s, i, w) ==
  /\ i + Len(w) - 1 <= Len(s)
  /\ \A k \in 1..Len(w) : ToLower(s[i + k - 1]) = w[k]

Min(S) == CHOOSE x \in S : \A y \in S : x <= y

\* first position >= i whose character is not in the set cs (Len(s)+1 if
\* none; i itself when i is past the end)
SkipWhile(s, i, cs) ==
  IF i > Len(s) THEN i
  ELSE Min({j \in i..(Len(s) + 1) : j > Len(s) \/ s[j] \notin cs})

\* first position >= i whose character is in the set cs (Len(s)+1 if none;
\* i itself when i is past the end)
SkipUntil(s, i, cs) ==
  IF i > Len(s) THEN i
  ELSE Min({j \in i..(Len(s) + 1) : j > Len(s) \/ s[j] \in cs})

----------------------------------------------------------------------------
(* strings helpers                                                         *)

RECURSIVE TrimLeft(_)
TrimLeft(s) ==
  IF Len(s) > 0 /\ s[1] \in UnicodeSpace THEN TrimLeft(Tail(s)) ELSE s

RECURSIVE TrimRight(_)
TrimRight(s) ==
  IF Len(s) > 0 /\ s[Len(s)] \in UnicodeSpace
  THEN TrimRight(SubSeq(s, 1, Len(s) - 1)) ELSE s

\* strings.TrimSpace
TrimSpace(s) == TrimRight(TrimLeft(s))

\* strings.TrimSuffix(s, ";")
TrimSuffixSemi(s) ==
  IF Len(s) > 0 /\ s[Len(s)] = ";" THEN SubSeq(s, 1, Len(s) - 1) ELSE s

\* strings.Split(s, sep) for a one-character separator: always at least one
\* piece, empty pieces kept
RECURSIVE SplitOn(_, _)
SplitOn(s, sep) ==
  LET j == SkipUntil(s, 1, {sep})
  IN  IF j > Len(s) THEN <<s>>
      ELSE <<Slice(s, 1, j)>> \o SplitOn(SubSeq(s, j + 1, Len(s)), sep)

\* strings.Join(pieces, sep)
RECURSIVE JoinWith(_, _)
JoinWith(pieces, sep) ==
  IF Len(pieces) = 0 THEN <<>>
  ELSE IF Len(pieces) = 1 THEN pieces[1]
  ELSE pieces[1] \o <<sep>> \o JoinWith(Tail(pieces), sep)

\* strings.Join(pieces, sep) for a separator text
RECURSIVE JoinText(_, _)
JoinText(pieces, sep) ==
  IF Len(pieces) = 0 THEN <<>>
  ELSE IF Len(pieces) = 1 THEN pieces[1]
  ELSE pieces[1] \o sep \o JoinText(Tail(pieces), sep)

----------------------------------------------------------------------------
(* stripComments                                                           *)

\* position of the `*` of the first `*/` at or after j that closes a block
\* comment opened before j: `.` does not match a line break (the pattern has
\* no s flag), so the search stops at "\n". 0 when there is none.
BlockClose(s, j) ==
  LET closes == {k \in j..(Len(s) - 1) : s[k] = "*" /\ s[k + 1] = "/"}
  IN  IF closes = {} THEN 0
      ELSE IF \E m \in j..(Min(closes) - 1) : s[m] = "\n" THEN 0
      ELSE Min(closes)

\* reMultiLine.ReplaceAllString(stmt, ""): every leftmost, shortest match of
\* /\*.*?\*/ is deleted, scanning left to right from position i: the text
\* up to the next match is kept, and the scan goes on after the match
RECURSIVE RemoveBlockComments(_, _)
RemoveBlockComments(s, i) ==
  LET opens == {k \in i..(Len(s) - 1) :
                  s[k] = "/" /\ s[k + 1] = "*" /\ BlockClose(s, k + 2) # 0}
  IN  IF opens = {} THEN SubSeq(s, i, Len(s))
      ELSE SubSeq(s, i, Min(opens) - 1)
             \o RemoveBlockComments(s, BlockClose(s, Min(opens) + 2) + 2)

\* the next position >= i of the line, before its last character, where
\* an iteration of the inner loop of stripComments can do anything: a quote
\* character, or a `-` followed by a `-`.  Len(line) when there is none.
NextSpecial(line, i) ==
  Min({k \in i..Len(line) :
         \/ k >= Len(line)
         \/ line[k] \in QuoteChars
         \/ (line[k] = "-" /\ line[k + 1] = "-")} \cup {Len(line)})

\* the inner loop of stripComments over one line, from (1-based) position i:
\* the position of the first `--` outside quotes, 0 when there is none
\* (commentIdx = -1). The loop stops before the last character of the line.
\* Iterations that change nothing are passed over in one step.
RECURSIVE CommentIdx(_, _, _, _, _)
CommentIdx(line, j, inSingleQuote, inDoubleQuote, inBacktick) ==
  IF NextSpecial(line, j) > Len(line) - 1 THEN 0
  ELSE LET i == NextSpecial(line, j)
           char == line[i]
           nextChar == line[i + 1]
       IN  IF char = "'" /\ ~inDoubleQuote /\ ~inBacktick
           THEN CommentIdx(line, i + 1, ~inSingleQuote, inDoubleQuote, inBacktick)
           ELSE IF char = "\"" /\ ~inSingleQuote /\ ~inBacktick
           THEN CommentIdx(line, i + 1, inSingleQuote, ~inDoubleQuote, inBacktick)
           ELSE IF char = Backtick /\ ~inSingleQuote /\ ~inDoubleQuote
           THEN CommentIdx(line, i + 1, inSingleQuote, inDoubleQuote, ~inBacktick)
           ELSE IF char = "-" /\ nextChar = "-"
                   /\ ~inSingleQuote /\ ~inDoubleQuote /\ ~inBacktick
           THEN i
           ELSE CommentIdx(line, i + 1, inSingleQuote, inDoubleQuote, inBacktick)

\* one iteration of the loop over the lines: line[:commentIdx] or the line
StripLine(line) ==
  LET commentIdx == CommentIdx(line, 1, FALSE, FALSE, FALSE)
  IN  IF commentIdx > 0 THEN Slice(line, 1, commentIdx) ELSE line

stripComments(s) ==
  LET noBlock == RemoveBlockComments(s, 1)
      lines   == SplitOn(noBlock, "\n")
      res     == [k \in 1..Len(lines) |-> StripLine(lines[k])]
  IN  JoinWith(res, "\n")

----------------------------------------------------------------------------
(* the regexp of Parse:  (?is)^\s*select\s+(.*?)\s+from\s+([^\s;]+)        *)

kwSelect == <<"s", "e", "l", "e", "c", "t">>

kwFrom == <<"f", "r", "o", "m">>

\* \s+from\s+([^\s;]+) matches s starting at position q.  \s+ is greedy and
\* the next item can never match a space, so each run is taken whole.
TailMatch(s, q) ==
  LET r == SkipWhile(s, q, ReSpace)
      u == SkipWhile(s, r + Len(kwFrom), ReSpace)
      v == SkipUntil(s, u, ReSpace \cup {";"})
  IN  /\ q <= Len(s) /\ r > q
      /\ MatchWordAt(s, r, kwFrom)
      /\ u > r + Len(kwFrom)
      /\ v > u

\* the table group of a tail match at q: positions u .. v-1
TailTable(s, q) ==
  LET r == SkipWhile(s, q, ReSpace)
      u == SkipWhile(s, r + Len(kwFrom), ReSpace)
      v == SkipUntil(s, u, ReSpace \cup {";"})
  IN  Slice(s, u, v)

\* KeywordStart with the ^ of the pattern forgotten: the keyword is looked
\* for anywhere in the text
KeywordStart_Unanchored(s) ==
  LET hits == {i \in 1..Len(s) : MatchWordAt(s, i, kwSelect)}
  IN  IF hits = {} THEN SkipWhile(s, 1, ReSpace) ELSE Min(hits)

\* where the keyword must start: ^\s* is anchored at the start of the text
KeywordStart(s) == SkipWhile(s, 1, ReSpace)

\* re.FindStringSubmatch(stmt): [ok, cols, tbl].  After `select` at p0 the
\* first \s+ takes k characters of the run of w spaces and the lazy group
\* ends at q; the leftmost-first match is the one with the largest k and,
\* for that k, the smallest q.
FindStringSubmatch(s) ==
  LET p0 == KeywordStart(s)
      p1 == p0 + Len(kwSelect)
      w  == SkipWhile(s, p1, ReSpace) - p1
      cands == IF MatchWordAt(s, p0, kwSelect)
               THEN {c \in (1..w) \X (p1..Len(s)) :
                        c[2] >= p1 + c[1] /\ TailMatch(s, c[2])}
               ELSE {}
  IN  IF cands = {} THEN [ok |-> FALSE, cols |-> <<>>, tbl |-> <<>>]
      ELSE LET best == CHOOSE c \in cands : \A d \in cands :
                          \/ c[1] > d[1]
                          \/ (c[1] = d[1] /\ c[2] <= d[2])
           IN  [ok |-> TRUE,
                cols |-> Slice(s, p1 + best[1], best[2]),
                tbl |-> TailTable(s, best[2])]

----------------------------------------------------------------------------
(* unquote and Parse                                                       *)

\* unquote looking at the first character only
unquote_FirstOnly(col) ==
  IF Len(col) >= 2 /\ col[1] \in QuoteChars
  THEN SubSeq(col, 2, Len(col) - 1)
  ELSE col

unquote(col) ==
  IF Len(col) >= 2
     /\ \/ (col[1] = Backtick /\ col[Len(col)] = Backtick)
        \/ (col[1] = "\"" /\ col[Len(col)] = "\"")
        \/ (col[1] = "'" /\ col[Len(col)] = "'")
  THEN SubSeq(col, 2, Len(col) - 1)
  ELSE col

\* the body of the loop over the pieces of the column region
RECURSIVE CollectColumns(_)
CollectColumns(pieces) ==
  IF Len(pieces) = 0 THEN <<>>
  ELSE LET col == unquote(TrimSpace(pieces[1]))
       IN  IF col = <<>> THEN CollectColumns(Tail(pieces))
           ELSE <<col>> \o CollectColumns(Tail(pieces))

\* Parse(stmt) = (table, columns); a nil column list is the empty sequence
Parse(s) ==
  LET matches == FindStringSubmatch(stripComments(s))
  IN  IF ~matches.ok THEN [table |-> <<>>, columns |-> <<>>]
      ELSE [table |-> TrimSuffixSemi(TrimSpace(matches.tbl)),
            columns |-> CollectColumns(SplitOn(matches.cols, ","))]

----------------------------------------------------------------------------
(* The statement builder (squirrel's SelectBuilder, used as a value).      *)
(* A skeleton is [columns, hasFrom, table, whereParts, orderBys, limit];   *)
(* limit = -1 stands for "no limit set".                                   *)

\* the pieces squirrel writes a SELECT statement with
txtSelect ==
  <<"S", "E", "L", "E", "C", "T", " ">>

txtFrom ==
  <<" ", "F", "R", "O", "M", " ">>

txtWhere ==
  <<" ", "W", "H", "E", "R", "E", " ">>

txtAnd ==
  <<" ", "A", "N", "D", " ">>

txtOrderBy ==
  <<" ", "O", "R", "D", "E", "R", " ", "B", "Y", " ">>

txtLimit ==
  <<" ", "L", "I", "M", "I", "T", " ">>

txtComma ==
  <<",", " ">>

\* sq.Eq{"deleted_at": nil}
sqlDeletedAtIsNull ==
  <<"d", "e", "l", "e", "t", "e", "d", "_", "a", "t", " ", "I", "S", " ",
    "N", "U", "L", "L">>

\* sq.Eq{"id": 10}, without its argument
sqlIdEq ==
  <<"i", "d", " ", "=", " ", "?">>

\* sq.GtOrEq{"age": 18}, without its argument
sqlAgeGtOrEq ==
  <<"a", "g", "e", " ", ">", "=", " ", "?">>

sqlCreatedAtDesc ==
  <<"c", "r", "e", "a", "t", "e", "d", "_", "a", "t", " ", "D", "E", "S",
    "C">>

DigitChars == <<"0", "1", "2", "3", "4", "5", "6", "7", "8", "9">>

\* the decimal text of n >= 0 (fmt.Sprintf("%d", n))
RECURSIVE Digits(_)
Digits(n) ==
  IF n < 10 THEN <<DigitChars[n + 1]>>
  ELSE Digits(n \div 10) \o <<DigitChars[(n % 10) + 1]>>

WherePart(sql, args) == [sql |-> sql, args |-> args]

\* sq.Select(columns...)
sqSelect(columns) ==
  [columns |-> columns, hasFrom |-> FALSE, table |-> <<>>,
   whereParts |-> <<>>, orderBys |-> <<>>, limit |-> -1]

\* sb.From(table), sb.Where(pred), sb.OrderBy(expr), sb.Limit(n): each gives
\* a new value and leaves sb as it was
sqFrom(sb, table) == [sb EXCEPT !.hasFrom = TRUE, !.table = table]

sqWhere(sb, part) == [sb EXCEPT !.whereParts = Append(@, part)]

sqOrderBy(sb, expr) == [sb EXCEPT !.orderBys = Append(@, expr)]

sqLimit(sb, n) == [sb EXCEPT !.limit = n]

\* the arguments of the where parts, in order
RECURSIVE PartArgs(_)
PartArgs(parts) ==
  IF Len(parts) = 0 THEN <<>> ELSE parts[1].args \o PartArgs(Tail(parts))

\* sb.ToSql(): (statement, args, err).  The only failure is a skeleton
\* without columns; a skeleton whose table is empty still renders.
ToSql(sb) ==
  IF Len(sb.columns) = 0
  THEN [err |-> TRUE, sql |-> <<>>, args |-> <<>>]
  ELSE [err |-> FALSE,
        sql |-> txtSelect \o JoinText(sb.columns, txtComma)
                \o (IF sb.hasFrom THEN txtFrom \o sb.table ELSE <<>>)
                \o (IF Len(sb.whereParts) > 0
                    THEN txtWhere \o
                         JoinText([k \in 1..Len(sb.whereParts) |->
                                     sb.whereParts[k].sql], txtAnd)
                    ELSE <<>>)
                \o (IF Len(sb.orderBys) > 0
                    THEN txtOrderBy \o JoinText(sb.orderBys, txtComma)
                    ELSE <<>>)
                \o (IF sb.limit >= 0 THEN txtLimit \o Digits(sb.limit)
                    ELSE <<>>),
        args |-> PartArgs(sb.whereParts)]

\* func SelectBuilderFromStmt(stmt string) sq.SelectBuilder
SelectBuilderFromStmt(s) ==
  LET p == Parse(s) IN sqFrom(sqSelect(p.columns), p.table)

----------------------------------------------------------------------------
(* The interceptors.  There is one wrapped handle (raw); what it receives  *)
(* from a call is a record [method, query, args], NoCall when the call     *)
(* never reaches it.  An interceptor method gives [raw, ret]: the call it  *)
(* makes on the wrapped handle and how it returns: "raw" (whatever the     *)
(* wrapped handle returned), "renderErr" (the error of ToSql) or "panic".  *)

NoCall == [method |-> "none", query |-> <<>>, args |-> <<>>]

RawCall(method, query, args) ==
  [method |-> method, query |-> query, args |-> args]

Outcome(raw, how) == [raw |-> raw, ret |-> how]

\* func SelectForQuery(raw DBTX, expectedQuery string, sb sq.SelectBuilder)
SelectForQuery(expectedQuery, sb) ==
  [kind |-> "selector", expectedQuery |-> expectedQuery, sb |-> sb]

\* func Select(raw DBTX, sb sq.SelectBuilder) DBTX, of db.go
Select(sb) == SelectForQuery(<<>>, sb)

\* func Select(raw DBTX, sb sq.SelectBuilder) DBTX, the variant that
\* returns &selecter{raw, sb}
SelectSelecter(sb) ==
  [kind |-> "selecter", expectedQuery |-> <<>>, sb |-> sb]

NoInterceptor ==
  [kind |-> "none", expectedQuery |-> <<>>, sb |-> sqSelect(<<>>)]

\* func (r *selector) PrepareContext
selector_PrepareContext(r, query) ==
  Outcome(RawCall("PrepareContext", query, <<>>), "raw")

\* func (r *selector) ExecContext
selector_ExecContext(r, query, args) ==
  Outcome(RawCall("ExecContext", query, args), "raw")

\* selector.QueryContext without the test of the guard
selector_QueryContext_NoGuard(r, query, args) ==
  LET o == ToSql(r.sb)
  IN  IF o.err THEN Outcome(NoCall, "renderErr")
      ELSE Outcome(RawCall("QueryContext", o.sql, o.args), "raw")

\* func (r *selector) QueryContext
selector_QueryContext(r, query, args) ==
  IF r.expectedQuery # <<>> /\ query # r.expectedQuery
  THEN Outcome(RawCall("QueryContext", query, args), "raw")
  ELSE LET o == ToSql(r.sb)
       IN  IF o.err THEN Outcome(NoCall, "renderErr")
           ELSE Outcome(RawCall("QueryContext", o.sql, o.args), "raw")

\* selector.QueryRowContext passing the caller's args with the rendered
\* statement
selector_QueryRowContext_KeepArgs(r, query, args) ==
  IF r.expectedQuery # <<>> /\ query # r.expectedQuery
  THEN Outcome(RawCall("QueryRowContext", query, args), "raw")
  ELSE LET o == ToSql(r.sb)
       IN  IF o.err
           THEN Outcome(RawCall("QueryRowContext", query, args), "raw")
           ELSE Outcome(RawCall("QueryRowContext", o.sql, args), "raw")

\* func (r *selector) QueryRowContext
selector_QueryRowContext(r, query, args) ==
  IF r.expectedQuery # <<>> /\ query # r.expectedQuery
  THEN Outcome(RawCall("QueryRowContext", query, args), "raw")
  ELSE LET o == ToSql(r.sb)
       IN  IF o.err
           THEN Outcome(RawCall("QueryRowContext", query, args), "raw")
           ELSE Outcome(RawCall("QueryRowContext", o.sql, o.args), "raw")

\* func (r *selecter) PrepareContext: query, _ = r.sb.MustSql()
selecter_PrepareContext(r, query) ==
  LET o == ToSql(r.sb)
  IN  IF o.err THEN Outcome(NoCall, "panic")
      ELSE Outcome(RawCall("PrepareContext", o.sql, <<>>), "raw")

\* func (r *selecter) ExecContext
selecter_ExecContext(r, query, args) ==
  LET o == ToSql(r.sb)
  IN  IF o.err THEN Outcome(NoCall, "panic")
      ELSE Outcome(RawCall("ExecContext", o.sql, o.args), "raw")

\* func (r *selecter) QueryContext
selecter_QueryContext(r, query, args) ==
  LET o == ToSql(r.sb)
  IN  IF o.err THEN Outcome(NoCall, "panic")
      ELSE Outcome(RawCall("QueryContext", o.sql, o.args), "raw")

\* func (r *selecter) QueryRowContext
selecter_QueryRowContext(r, query, args) ==
  LET o == ToSql(r.sb)
  IN  IF o.err THEN Outcome(NoCall, "panic")
      ELSE Outcome(RawCall("QueryRowContext", o.sql, o.args), "raw")

\* the DBTX interface: a call goes to the method of the value behind it
DBTX_PrepareContext(r, query) ==
  IF r.kind = "selector" THEN selector_PrepareContext(r, query)
  ELSE selecter_PrepareContext(r, query)

DBTX_ExecContext(r, query, args) ==
  IF r.kind = "selector" THEN selector_ExecContext(r, query, args)
  ELSE selecter_ExecContext(r, query, args)

DBTX_QueryContext(r, query, args) ==
  IF r.kind = "selector" THEN selector_QueryContext(r, query, args)
  ELSE selecter_QueryContext(r, query, args)

DBTX_QueryRowContext(r, query, args) ==
  IF r.kind = "selector" THEN selector_QueryRowContext(r, query, args)
  ELSE selecter_QueryRowContext(r, query, args)

----------------------------------------------------------------------------
(* The wrappers of package tutorial.                                       *)

\* the statement texts of TestSelectForQuery_OnlyOverridesMatchingQuery
qExpected ==
  <<"e", "x", "p", "e", "c", "t", "e", "d">>

qOther ==
  <<"o", "t", "h", "e", "r">>

\* the canonical statement of ListUsers, as sqlc writes it into the generated code
stmtListUsers ==
  <<"-", "-", " ", "n", "a", "m", "e", ":", " ", "L", "i", "s", "t", "U",
    "s", "e", "r", "s", " ", ":", "m", "a", "n", "y", "\n", "S", "E", "L",
    "E", "C", "T", " ", "i", "d", ",", " ", "n", "a", "m", "e", ",", " ",
    "d", "e", "l", "e", "t", "e", "d", "_", "a", "t", " ", "F", "R", "O",
    "M", " ", "u", "s", "e", "r", "s", "\n">>

\* the canonical statement of ListUserPosts
stmtListUserPosts ==
  <<"-", "-", " ", "n", "a", "m", "e", ":", " ", "L", "i", "s", "t", "U",
    "s", "e", "r", "P", "o", "s", "t", "s", " ", ":", "m", "a", "n", "y",
    "\n", "S", "E", "L", "E", "C", "T", " ", "i", "d", ",", " ", "t", "i",
    "t", "l", "e", ",", " ", "d", "e", "l", "e", "t", "e", "d", "_", "a",
    "t", " ", "F", "R", "O", "M", " ", "u", "s", "e", "r", "_", "p", "o",
    "s", "t", "s", "\n">>

\* a canonical statement Parse does not match
stmtUnparsable ==
  <<"-", "-", " ", "n", "a", "m", "e", ":", " ", "L", "i", "s", "t", "U",
    "s", "e", "r", "s", " ", ":", "m", "a", "n", "y", "\n", "W", "I", "T",
    "H", " ", "u", " ", "A", "S", " ", "(", "S", "E", "L", "E", "C", "T",
    " ", "i", "d", " ", "F", "R", "O", "M", " ", "u", "s", "e", "r", "s",
    ")", " ", "S", "E", "L", "E", "C", "T", " ", "i", "d", " ", "F", "R",
    "O", "M", " ", "u", "\n">>

tblUsers ==
  <<"u", "s", "e", "r", "s">>

\* the steps a customization function is made of
ApplyStep(step, sb) ==
  CASE step = "WhereAdult" -> sqWhere(sb, WherePart(sqlAgeGtOrEq, <<18>>))
    [] step = "WhereId" -> sqWhere(sb, WherePart(sqlIdEq, <<10>>))
    [] step = "OrderByCreatedAt" -> sqOrderBy(sb, sqlCreatedAtDesc)
    [] step = "Limit10" -> sqLimit(sb, 10)
    [] step = "Limit1" -> sqLimit(sb, 1)

RECURSIVE ApplySteps(_, _)
ApplySteps(steps, sb) ==
  IF Len(steps) = 0 THEN sb
  ELSE ApplySteps(Tail(steps), ApplyStep(steps[1], sb))

\* a customization function fn: nil, or the steps it applies to sb.  The
\* third one is the function of example.go.
NilFn == [isNil |-> TRUE, steps |-> <<>>]

Fn(steps) == [isNil |-> FALSE, steps |-> steps]

Fns ==
  {NilFn, Fn(<<>>), Fn(<<"WhereAdult", "OrderByCreatedAt", "Limit10">>),
   Fn(<<"WhereId">>)}

\* the default row cap of the base skeletons
DefaultLimit == 500

\* var listUsersBuilder = builder.SelectBuilderFromStmt(listUsers).
\*     Where(sq.Eq{"deleted_at": nil}).Limit(500)
BaseBuilder(canonical) ==
  sqLimit(sqWhere(SelectBuilderFromStmt(canonical),
                  WherePart(sqlDeletedAtIsNull, <<>>)), DefaultLimit)

\* what the wrapped handle answers to a query: an error, or n rows, which
\* the generated code decodes into the values 1 .. n
MaxRows == 2

DbAnswers ==
  {[err |-> TRUE, n |-> 0]} \cup {[err |-> FALSE, n |-> k] : k \in 0..MaxRows}

ApiRet(rows, row, err) == [rows |-> rows, row |-> row, err |-> err]

\* q.ListUsers(ctx) / q.ListUserPosts(ctx) of the generated code, on the
\* handle db: one QueryContext with the canonical statement and no
\* arguments, its error returned, its rows decoded
GeneratedList(db, canonical, answer) ==
  LET o == DBTX_QueryContext(db, canonical, <<>>)
  IN  [out |-> o,
       ret |-> IF o.ret = "renderErr" THEN ApiRet(<<>>, 0, "render error")
               ELSE IF answer.err THEN ApiRet(<<>>, 0, "db error")
               ELSE ApiRet([k \in 1..answer.n |-> k], 0, "nil")]

\* func ListUsers / func ListUserPosts: [db, out, ret]
ListWith(base, canonical, fn, answer) ==
  LET sb == IF ~fn.isNil THEN ApplySteps(fn.steps, base) ELSE base
      db == Select(sb)
      g  == GeneratedList(db, canonical, answer)
  IN  [db |-> db, out |-> g.out, ret |-> g.ret]

\* FindUser applying Limit(1) before the caller's function instead of after
FindWith_LimitFirst(base, canonical, fn, answer) ==
  LET inner == Fn(<<"Limit1">> \o (IF ~fn.isNil THEN fn.steps ELSE <<>>))
      l == ListWith(base, canonical, inner, answer)
  IN  [db |-> l.db, out |-> l.out,
       ret |-> IF l.ret.err # "nil" THEN ApiRet(<<>>, 0, l.ret.err)
               ELSE IF Len(l.ret.rows) = 0
               THEN ApiRet(<<>>, 0, "sql.ErrNoRows")
               ELSE ApiRet(<<>>, l.ret.rows[1], "nil")]

\* func FindUser / func FindUserPost: the list with a function that applies
\* fn, if there is one, and then Limit(1)
FindWith(base, canonical, fn, answer) ==
  LET inner == Fn((IF ~fn.isNil THEN fn.steps ELSE <<>>) \o <<"Limit1">>)
      l == ListWith(base, canonical, inner, answer)
  IN  [db |-> l.db, out |-> l.out,
       ret |-> IF l.ret.err # "nil" THEN ApiRet(<<>>, 0, l.ret.err)
               ELSE IF Len(l.ret.rows) = 0
               THEN ApiRet(<<>>, 0, "sql.ErrNoRows")
               ELSE ApiRet(<<>>, l.ret.rows[1], "nil")]

----------------------------------------------------------------------------
(* Inputs of Parse.  Every input is a record [stmt, gen]: the text handed  *)
(* to Parse and how it was put together: family, kind, the undecorated     *)
(* base text, and the table and the columns it was written with.           *)

\* the largest number of columns of a generated statement
MaxCols == 2

SeqsUpTo(S, n) == UNION {[1..k -> S] : k \in 1..n}

ColNames == {<<"a">>, <<"i", "d">>, <<"f", "r", "o", "m", "x">>}

TableNames == {<<"t">>, <<"u", "s", "e", "r", "s">>}

\* letter cases of the two keywords
KeywordPairs ==
  {<<<<"s", "e", "l", "e", "c", "t">>, <<"F", "R", "O", "M">>>>,
   <<<<"S", "E", "L", "E", "C", "T">>, <<"f", "r", "o", "m">>>>,
   <<<<"S", "e", "L", "e", "C", "t">>, <<"f", "r", "O", "m">>>>}

Leads == {<<>>, <<"\n", "\t", " ">>}

Gaps == {<<" ">>, <<"\n", "\t">>}

Seps == {<<",">>, <<" ", ",", " ">>, <<",", "\n", "\t">>}

Trails == {<<>>, <<";">>, <<"\n", ";", "\n">>}

\* the text  SELECT c1, c2, ..., cn FROM t
Statement(lead, kw, gap, cols, sep, tbl, trail) ==
  lead \o kw[1] \o gap \o JoinText(cols, sep) \o gap \o kw[2] \o gap
       \o tbl \o trail

WellFormedInputs ==
  {[stmt |-> Statement(lead, kw, gap, cols, sep, tbl, trail),
    gen |-> [family |-> "wellformed", kind |-> "plain", base |-> <<>>,
             expTable |-> tbl, expCols |-> cols]] :
     lead \in Leads, kw \in KeywordPairs, gap \in Gaps,
     cols \in SeqsUpTo(ColNames, MaxCols), sep \in Seps,
     tbl \in TableNames, trail \in Trails}

\* the table of TestParse
TestInputs == {
  [stmt |-> <<"s", "e", "l", "e", "c", "t", " ", "a", ",", "b", ",", "c", " ",
      "F", "R", "O", "M", " ", "t", "e", "s", "t", ";">>,
   gen |-> [family |-> "tests", kind |-> "case1", base |-> <<>>,
           expTable |-> <<"t", "e", "s", "t">>, expCols |-> <<<<"a">>,
               <<"b">>, <<"c">>>>]],
  [stmt |-> <<"\n", "\t", "\t", "\t", " ", "S", "E", "L", "E", "C", "T", "\n",
      "\t", "\t", "\t", "\t", "i", "d", " ", ",", "\n", "\t", "\t", "\t",
      "\t", " ", "n", "a", "m", "e", "\n", "\t", "\t", "\t", "\t", "F", "R",
      "O", "M", "\n", "\t", "\t", "\t", "\t", " ", "u", "s", "e", "r", "s",
      "_", "t", "a", "b", "l", "e", "\n", "\t", "\t", "\t", "\t", ";", "\n",
      "\t", "\t", "\t">>,
   gen |-> [family |-> "tests", kind |-> "case2", base |-> <<>>,
           expTable |-> <<"u", "s", "e", "r", "s", "_", "t", "a", "b", "l",
               "e">>, expCols |-> <<<<"i", "d">>, <<"n", "a", "m", "e">>>>]],
  [stmt |-> <<"u", "p", "d", "a", "t", "e", " ", "t", "a", "b", "l", "e", " ",
      "s", "e", "t", " ", "a", "=", "1">>,
   gen |-> [family |-> "tests", kind |-> "case3", base |-> <<>>,
           expTable |-> <<>>, expCols |-> <<>>]],
  [stmt |-> <<" ", " ", "\n", "\t", "s", "e", "l", "e", "c", "t", " ", " ",
      "c", "o", "l", "1", " ", ",", " ", " ", "c", "o", "l", "2", " ", " ",
      "f", "r", "o", "m", " ", " ", "m", "y", "_", "t", "a", "b", " ", " ">>,
   gen |-> [family |-> "tests", kind |-> "case4", base |-> <<>>,
           expTable |-> <<"m", "y", "_", "t", "a", "b">>, expCols |-> <<<<"c",
               "o", "l", "1">>, <<"c", "o", "l", "2">>>>]],
  [stmt |-> <<"S", "E", "L", "E", "C", "T", " ", Backtick, "a", Backtick, ",",
      " ", "\"", "b", "\"", ",", " ", "'", "c", "'", " ", "F", "R", "O", "M",
      " ", "t", "1", ";">>,
   gen |-> [family |-> "tests", kind |-> "case5", base |-> <<>>,
           expTable |-> <<"t", "1">>, expCols |-> <<<<"a">>, <<"b">>,
               <<"c">>>>]],
  [stmt |-> <<"-", "-", " ", "n", "a", "m", "e", ":", " ", "L", "i", "s", "t",
      "U", "s", "e", "r", "s", " ", ":", "m", "a", "n", "y", "\n", "S", "E",
      "L", "E", "C", "T", " ", "i", "d", ",", " ", "n", "a", "m", "e", ",",
      " ", "-", "-", " ", "c", "o", "m", "m", "e", "n", "t", "\n", "e", "m",
      "a", "i", "l", ",", " ", "a", "g", "e", ",", " ", "c", "r", "e", "a",
      "t", "e", "d", "_", "a", "t", ",", " ", "u", "p", "d", "a", "t", "e",
      "d", "_", "a", "t", " ", "F", "R", "O", "M", " ", "u", "s", "e", "r",
      "s", "\n">>,
   gen |-> [family |-> "tests", kind |-> "case6", base |-> <<>>,
           expTable |-> <<"u", "s", "e", "r", "s">>, expCols |-> <<<<"i",
               "d">>, <<"n", "a", "m", "e">>, <<"e", "m", "a", "i", "l">>,
               <<"a", "g", "e">>, <<"c", "r", "e", "a", "t", "e", "d", "_",
               "a", "t">>, <<"u", "p", "d", "a", "t", "e", "d", "_", "a",
               "t">>>>]]}

\* --- statements decorated with comments -----------------------------------

\* undecorated statements: one line, several lines, quoted columns
CommentBases ==
  {Statement(<<>>, kw, <<" ">>, <<<<"a">>, <<"i", "d">>>>, <<",">>,
             <<"t">>, <<";">>) : kw \in KeywordPairs}
  \cup
  {Statement(<<>>, kw, <<"\n", "\t">>, <<<<"a">>, <<"i", "d">>>>,
             <<" ", ",", "\n">>, <<"u", "s", "e", "r", "s">>, <<"\n">>) :
     kw \in KeywordPairs}
  \cup
  {Statement(<<" ">>, kw, <<"\n">>, <<<<"'", "a", "'">>, <<"\"", "i", "d", "\"">>>>,
             <<",", " ">>, <<"t">>, <<"\n", ";">>) : kw \in KeywordPairs}

\* block comments written on one line:  /* c */   /*--*/   /*'*/
OneLineBlocks ==
  {<<"/", "*", " ", "c", " ", "*", "/">>,
   <<"/", "*", "-", "-", "*", "/">>,
   <<"/", "*", "'", "*", "/">>}

\* a block comment that spans two lines
TwoLineBlock == <<"/", "*", " ", "c", "\n", " ", "d", " ", "*", "/">>

\* the leading comment line sqlc writes:  -- name: L :many
NameLine == <<"-", "-", " ", "n", "a", "m", "e", ":", " ", "L", " ", ":",
              "m", "a", "n", "y", "\n">>

\* line comments:  " -- c"  and the bare marker "--"
LineComments == {<<" ", "-", "-", " ", "c">>, <<"-", "-">>,
                 <<"-", "-", " ", "'", "c">>}

\* base with the text ins put in after its first i characters
InsertAt(base, i, ins) ==
  SubSeq(base, 1, i) \o ins \o SubSeq(base, i + 1, Len(base))

\* the positions that end a line of base: before a "\n", or the end of text
LineEnds(base) ==
  {i \in 0..Len(base) : i = Len(base) \/ base[i + 1] = "\n"}

CommentGen(kind, base) ==
  [family |-> "comment", kind |-> kind, base |-> base,
   expTable |-> <<>>, expCols |-> <<>>]

CommentInputs ==
  UNION {
    {[stmt |-> InsertAt(base, i, blk), gen |-> CommentGen("block", base)] :
       i \in 0..Len(base), blk \in OneLineBlocks}
    \cup
    {[stmt |-> InsertAt(base, i, TwoLineBlock),
      gen |-> CommentGen("block2", base)] : i \in 0..Len(base)}
    \cup
    {[stmt |-> NameLine \o base, gen |-> CommentGen("name", base)]}
    \cup
    {[stmt |-> InsertAt(base, i, lc), gen |-> CommentGen("line", base)] :
       i \in LineEnds(base), lc \in LineComments} :
    base \in CommentBases}

\* --- texts that do not have the SELECT ... FROM ... shape -----------------

NoMatchGen(kind) ==
  [family |-> "nomatch", kind |-> kind, base |-> <<>>,
   expTable |-> <<>>, expCols |-> <<>>]

\* a well-formed statement spoilt in one place
NoMatchInputs ==
  LET W(k, cols, tbl, lead, trail) ==
        Statement(lead, k, <<" ">>, cols, <<",">>, tbl, trail)
  IN
  UNION {
    {\* another keyword at the start
     [stmt |-> lead \o <<"u", "p", "d", "a", "t", "e", " ">> \o cols[1]
               \o <<" ">> \o kw[2] \o <<" ">> \o tbl \o trail,
      gen |-> NoMatchGen("update")],
     \* text before the keyword: the match is anchored at the start
     [stmt |-> <<"x">> \o W(kw, cols, tbl, lead, trail),
      gen |-> NoMatchGen("prefix")],
     [stmt |-> <<"(">> \o W(kw, cols, tbl, <<>>, trail),
      gen |-> NoMatchGen("paren")],
     \* no FROM clause
     [stmt |-> lead \o kw[1] \o <<" ">> \o JoinText(cols, <<",">>) \o trail,
      gen |-> NoMatchGen("nofrom")],
     \* FROM without a table
     [stmt |-> lead \o kw[1] \o <<" ">> \o JoinText(cols, <<",">>) \o <<" ">>
               \o kw[2] \o trail,
      gen |-> NoMatchGen("notable")],
     [stmt |-> lead \o kw[1] \o <<" ">> \o JoinText(cols, <<",">>) \o <<" ">>
               \o kw[2] \o <<" ", ";">>,
      gen |-> NoMatchGen("semicolon")],
     \* no space after SELECT, no space after FROM, no space before FROM
     [stmt |-> lead \o kw[1] \o JoinText(cols, <<",">>) \o <<" ">> \o kw[2]
               \o <<" ">> \o tbl \o trail,
      gen |-> NoMatchGen("glued1")],
     [stmt |-> lead \o kw[1] \o <<" ">> \o JoinText(cols, <<",">>) \o <<" ">>
               \o kw[2] \o tbl \o trail,
      gen |-> NoMatchGen("glued2")],
     [stmt |-> lead \o kw[1] \o <<" ">> \o JoinText(cols, <<",">>) \o kw[2]
               \o <<" ">> \o tbl \o trail,
      gen |-> NoMatchGen("glued3")],
     \* no column region at all: one space between SELECT and FROM
     [stmt |-> lead \o kw[1] \o <<" ">> \o kw[2] \o <<" ">> \o tbl \o trail,
      gen |-> NoMatchGen("nocolumns")],
     \* the statement, or its FROM clause, inside a comment
     [stmt |-> <<"-", "-", " ">> \o W(kw, cols, tbl, <<>>, <<>>),
      gen |-> NoMatchGen("commented")],
     [stmt |-> <<"/", "*">> \o W(kw, cols, tbl, <<>>, <<>>) \o <<"*", "/">>,
      gen |-> NoMatchGen("blocked")],
     [stmt |-> lead \o kw[1] \o <<" ">> \o JoinText(cols, <<",">>)
               \o <<" ", "-", "-", " ">> \o kw[2] \o <<" ">> \o tbl \o trail,
      gen |-> NoMatchGen("fromcommented")],
     \* a keyword cut short
     [stmt |-> lead \o SubSeq(kw[1], 1, 5) \o <<" ">> \o JoinText(cols, <<",">>)
               \o <<" ">> \o kw[2] \o <<" ">> \o tbl \o trail,
      gen |-> NoMatchGen("selec")],
     [stmt |-> lead \o kw[1] \o <<" ">> \o JoinText(cols, <<",">>) \o <<" ">>
               \o SubSeq(kw[2], 1, 3) \o <<" ">> \o tbl \o trail,
      gen |-> NoMatchGen("fro")]} :
    kw \in KeywordPairs,
    cols \in {<<<<"a">>>>, <<<<"i", "d">>, <<"f", "r", "o", "m", "x">>>>},
    tbl \in {<<"t">>}, lead \in Leads, trail \in {<<>>, <<";">>}}
  \cup {[stmt |-> <<>>, gen |-> NoMatchGen("empty")],
        [stmt |-> <<" ", "\n">>, gen |-> NoMatchGen("blank")]}

\* --- statements with quoted column tokens --------------------------------

\* a token is written  open inner close
Token(open, inner, close) == [open |-> open, inner |-> inner, close |-> close]

TokenText(tok) == tok.open \o tok.inner \o tok.close

QuoteTexts == {<<q>> : q \in QuoteChars}

\* tokens wrapped in a matching pair of quotes; the inner text may be
\* empty, hold a space, or be itself a quoted text
WrappedTokens ==
  {Token(q, inner, q) :
     q \in QuoteTexts,
     inner \in {<<"i", "d">>, <<>>, <<"a", " ">>}}
  \cup {Token(<<Backtick>>, <<"\"", "a", "\"">>, <<Backtick>>),
        Token(<<"'">>, <<Backtick, "a", Backtick>>, <<"'">>)}

\* tokens whose first and last characters are not the same quote character
OtherTokens ==
  {Token(<<>>, <<"a">>, <<>>),
   Token(<<"'">>, <<"a">>, <<>>), Token(<<>>, <<"a">>, <<Backtick>>),
   Token(<<"'">>, <<"a">>, <<"\"">>), Token(<<"\"">>, <<>>, <<>>)}

Tokens == WrappedTokens \cup OtherTokens

\* what the token stands for: its inner text when wrapped, else its text
TokenValue(tok) ==
  IF tok \in WrappedTokens THEN tok.inner ELSE TokenText(tok)

QuotedInputs ==
  {[stmt |-> Statement(<<>>, kw, <<" ">>,
                       [k \in 1..Len(toks) |-> TokenText(toks[k])], sep,
                       <<"t">>, <<";">>),
    gen |-> [family |-> "quoted", kind |-> "tokens", base |-> <<>>,
             expTable |-> <<"t">>,
             expCols |-> [k \in 1..Len(toks) |-> TokenValue(toks[k])]]] :
     kw \in {<<kwSelect, kwFrom>>}, sep \in {<<",">>, <<" ", ",", "\n">>},
     toks \in SeqsUpTo(Tokens, MaxCols)}

\* --- statements with a quoted table name ---------------------------------

\* the table as it is written: bare, or wrapped in a pair of quotes
TableTokens ==
  {Token(<<>>, tblUsers, <<>>)}
    \cup {Token(q, tblUsers, q) : q \in QuoteTexts}

\* what follows the table
TableTrails == {<<>>, <<";">>, <<" ", ";">>, <<"\n">>, <<";", "\n">>}

TableInputs ==
  {[stmt |-> Statement(<<>>, kw, <<" ">>, <<<<"i", "d">>>>, <<",">>,
                       TokenText(tok), trail),
    gen |-> [family |-> "table",
             kind |-> IF tok.open = <<>> THEN "bare" ELSE "wrapped",
             base |-> TokenText(tok),
             expTable |-> tok.inner, expCols |-> <<<<"i", "d">>>>]] :
     kw \in KeywordPairs, tok \in TableTokens, trail \in TableTrails}

ParseInputs ==
  WellFormedInputs \cup TestInputs \cup CommentInputs \cup NoMatchInputs
    \cup QuotedInputs \cup TableInputs

----------------------------------------------------------------------------
(* Initial values                                                          *)

NoResult == [table |-> <<>>, columns |-> <<>>]

IdleGen ==
  [family |-> "idle", kind |-> "idle", base |-> <<>>,
   expTable |-> <<>>, expCols |-> <<>>]

NoApi ==
  [op |-> "none", fn |-> NilFn, answer |-> [err |-> FALSE, n |-> 0],
   ret |-> ApiRet(<<>>, 0, "nil")]

ParseIdle ==
  /\ stmt = <<>> /\ gen = IdleGen /\ parsed = FALSE /\ result = NoResult

\* the package variables of tutorial are set when the program starts
BasesBuilt ==
  /\ listUsersBuilder = BaseBuilder(listUsers)
  /\ listUserPostsBuilder = BaseBuilder(listUserPosts)

DbIdle ==
  /\ icpt = NoInterceptor /\ call = NoCall /\ rawCall = NoCall
  /\ ret = "none" /\ api = NoApi

\* the goroutines that call the wrappers
NumGoroutines == 2

Goroutines == 1..NumGoroutines

\* a goroutine that is in no wrapper call; in a call it holds the wrapper
\* it is in (op), the caller's function (fn), where it is (pc), its local
\* sb and db, and what its QueryContext handed the wrapped handle (sent)
IdleGoroutine ==
  [pc |-> "idle", op |-> "none", fn |-> NilFn, sb |-> sqSelect(<<>>),
   db |-> NoInterceptor, sent |-> NoCall, how |-> "none"]

GoIdle == goroutines = [g \in Goroutines |-> IdleGoroutine]

----------------------------------------------------------------------------
(* The specification of the parser: an input is drawn, Parse is called.    *)

InitParse ==
  /\ \E inp \in ParseInputs : stmt = inp.stmt /\ gen = inp.gen
  /\ parsed = FALSE
  /\ result = NoResult
  /\ listUsers = stmtListUsers /\ listUserPosts = stmtListUserPosts
  /\ BasesBuilt
  /\ DbIdle
  /\ GoIdle

\* table, columns := Parse(stmt)
CallParse ==
  /\ ~parsed
  /\ result' = Parse(stmt)
  /\ parsed' = TRUE
  /\ UNCHANGED <<stmt, gen, baseVars, dbVars, goVars>>

NextParse == CallParse

SpecParse == InitParse /\ [][NextParse]_vars

----------------------------------------------------------------------------
(* The specification of the interceptors and the wrappers.                 *)

\* the largest number of arguments a caller passes
MaxArgs == 2

ArgValues == {1, 2}

ArgLists == {<<>>} \cup SeqsUpTo(ArgValues, MaxArgs)

\* the statement texts callers pass
Queries == {qExpected, qOther}

\* the statement texts calls are made with: those of the test, and the
\* canonical statement the generated code of ListUsers passes
CallerQueries == Queries \cup {listUsers}

\* the guards interceptors are built with; the empty text is "no guard"
Guards == {<<>>, qExpected}

\* sq.Select("*").From("users").Where(sq.Eq{"id": 10}), the skeleton of
\* TestSelectForQuery_OnlyOverridesMatchingQuery
TestSkeleton ==
  sqWhere(sqFrom(sqSelect(<<<<"*">>>>), tblUsers), WherePart(sqlIdEq, <<10>>))

\* the skeletons interceptors are built with: two that render, with one
\* and with two arguments, a base skeleton, and the base skeleton of a
\* canonical statement that did not parse
Skeletons ==
  {TestSkeleton,
   sqWhere(TestSkeleton, WherePart(sqlAgeGtOrEq, <<18>>)),
   BaseBuilder(stmtListUsers),
   BaseBuilder(stmtUnparsable)}

CanonicalListUsers == {stmtListUsers, stmtUnparsable}

CanonicalListUserPosts == {stmtListUserPosts}

Init ==
  /\ ParseIdle
  /\ listUsers \in CanonicalListUsers
  /\ listUserPosts \in CanonicalListUserPosts
  /\ BasesBuilt
  /\ DbIdle
  /\ GoIdle

\* a panic ends the program
Running == ret # "panic"

\* wrapped := SelectForQuery(raw, expectedQuery, sb)
NewSelectForQuery ==
  /\ Running
  /\ \E expectedQuery \in Guards, sb \in Skeletons :
        icpt' = SelectForQuery(expectedQuery, sb)
  /\ call' = NoCall /\ rawCall' = NoCall /\ ret' = "none" /\ api' = NoApi
  /\ UNCHANGED <<parseVars, baseVars, goVars>>

\* wrapped := Select(raw, sb), with the Select of db.go
NewSelect ==
  /\ Running
  /\ \E sb \in Skeletons : icpt' = Select(sb)
  /\ call' = NoCall /\ rawCall' = NoCall /\ ret' = "none" /\ api' = NoApi
  /\ UNCHANGED <<parseVars, baseVars, goVars>>

\* wrapped := Select(raw, sb), with the Select that returns a selecter
NewSelecter ==
  /\ Running
  /\ \E sb \in Skeletons : icpt' = SelectSelecter(sb)
  /\ call' = NoCall /\ rawCall' = NoCall /\ ret' = "none" /\ api' = NoApi
  /\ UNCHANGED <<parseVars, baseVars, goVars>>

\* the call is recorded with what it made of it
Called(method, query, args, o) ==
  /\ call' = RawCall(method, query, args)
  /\ rawCall' = o.raw
  /\ ret' = o.ret
  /\ api' = NoApi
  /\ UNCHANGED <<parseVars, baseVars, icpt, goVars>>

\* wrapped.PrepareContext(ctx, query)
CallPrepareContext ==
  /\ Running /\ icpt.kind # "none"
  /\ \E query \in CallerQueries :
        Called("PrepareContext", query, <<>>, DBTX_PrepareContext(icpt, query))

\* wrapped.ExecContext(ctx, query, args...)
CallExecContext ==
  /\ Running /\ icpt.kind # "none"
  /\ \E query \in CallerQueries, args \in ArgLists :
        Called("ExecContext", query, args, DBTX_ExecContext(icpt, query, args))

\* wrapped.QueryContext(ctx, query, args...)
CallQueryContext ==
  /\ Running /\ icpt.kind # "none"
  /\ \E query \in CallerQueries, args \in ArgLists :
        Called("QueryContext", query, args,
               DBTX_QueryContext(icpt, query, args))

\* wrapped.QueryRowContext(ctx, query, args...)
CallQueryRowContext ==
  /\ Running /\ icpt.kind # "none"
  /\ \E query \in CallerQueries, args \in ArgLists :
        Called("QueryRowContext", query, args,
               DBTX_QueryRowContext(icpt, query, args))

\* a wrapper call: the interceptor it builds, the one QueryContext the
\* generated code makes on it, and what the wrapper returns
Wrapped(op, canonical, fn, answer, w) ==
  /\ icpt' = w.db
  /\ call' = RawCall("QueryContext", canonical, <<>>)
  /\ rawCall' = w.out.raw
  /\ ret' = w.out.ret
  /\ api' = [op |-> op, fn |-> fn, answer |-> answer, ret |-> w.ret]
  /\ UNCHANGED <<parseVars, baseVars, goVars>>

\* tutorial.ListUsers(ctx, db, fn)
ListUsers ==
  /\ Running
  /\ \E fn \in Fns, answer \in DbAnswers :
        Wrapped("ListUsers", listUsers, fn, answer,
                ListWith(listUsersBuilder, listUsers, fn, answer))

\* tutorial.FindUser(ctx, db, fn)
FindUser ==
  /\ Running
  /\ \E fn \in Fns, answer \in DbAnswers :
        Wrapped("FindUser", listUsers, fn, answer,
                FindWith(listUsersBuilder, listUsers, fn, answer))

\* tutorial.ListUserPosts(ctx, db, fn)
ListUserPosts ==
  /\ Running
  /\ \E fn \in Fns, answer \in DbAnswers :
        Wrapped("ListUserPosts", listUserPosts, fn, answer,
                ListWith(listUserPostsBuilder, listUserPosts, fn, answer))

\* tutorial.FindUserPost(ctx, db, fn)
FindUserPost ==
  /\ Running
  /\ \E fn \in Fns, answer \in DbAnswers :
        Wrapped("FindUserPost", listUserPosts, fn, answer,
                FindWith(listUserPostsBuilder, listUserPosts, fn, answer))

Next ==
  \/ NewSelectForQuery
  \/ NewSelect
  \/ NewSelecter
  \/ CallPrepareContext
  \/ CallExecContext
  \/ CallQueryContext
  \/ CallQueryRowContext
  \/ ListUsers
  \/ FindUser
  \/ ListUserPosts
  \/ FindUserPost

Spec == Init /\ [][Next]_vars

----------------------------------------------------------------------------
(* Claims about Parse, checked under SpecParse                             *)

\* TestParse: every case of the test table gives its expected result
TestParseHolds ==
  (parsed /\ gen.family = "tests") =>
     (result.table = gen.expTable /\ result.columns = gen.expCols)

\* C3: for every well-formed SELECT c1, ..., cn FROM t (any keyword case,
\* leading whitespace, whitespace and line breaks around the commas, an
\* optional trailing ;) Parse returns table t and exactly the n columns
\* c1 .. cn in source order.
C3_WellFormedParsed ==
  (parsed /\ gen.family = "wellformed") =>
     /\ result.table = gen.expTable
     /\ Len(result.columns) = Len(gen.expCols)
     /\ result.columns = gen.expCols

C3_Witness ==
  /\ parsed /\ gen.family = "wellformed"
  /\ Len(gen.expCols) = 2 /\ result.columns = gen.expCols
  /\ stmt[1] = "\n" /\ stmt[Len(stmt)] = "\n"
  /\ \E i \in 1..Len(stmt) : stmt[i] = "S"

\* C4 (as claimed): inserting a block comment anywhere (also one that spans
\* several lines), a leading "-- name:" line, or an unquoted line comment
\* at the end of a line leaves the table and the columns those of the
\* statement without the comment.
C4_CommentsIgnored ==
  (parsed /\ gen.family = "comment") => result = Parse(gen.base)

\* the part the code keeps: comments that stay on one line are ignored
OneLineCommentsIgnored ==
  (parsed /\ gen.family = "comment" /\ gen.kind # "block2") =>
     result = Parse(gen.base)

\* C5: a text that does not have the SELECT <columns> FROM <table> shape
\* at its start, once the comments are stripped, gives the empty table and
\* no columns.
C5_NoMatchEmpty ==
  (parsed /\ gen.family = "nomatch") =>
     (result.table = <<>> /\ result.columns = <<>>)

C5_Witness ==
  /\ parsed /\ gen.family = "nomatch" /\ gen.kind = "prefix"
  /\ result.table = <<>> /\ result.columns = <<>>

\* C6 (as claimed): every column token wrapped in a matching pair of
\* quotes is returned with one layer of quotes removed, every other token
\* unchanged: the columns are the values of the tokens, one per token.
C6_EveryTokenUnquoted ==
  (parsed /\ gen.family = "quoted") => result.columns = gen.expCols

\* the texts of a list that are not empty, in order
RECURSIVE NonEmpty(_)
NonEmpty(texts) ==
  IF Len(texts) = 0 THEN <<>>
  ELSE IF texts[1] = <<>> THEN NonEmpty(Tail(texts))
  ELSE <<texts[1]>> \o NonEmpty(Tail(texts))

\* C6 (amended): as C6, except that a token whose inner text is empty
\* (two quotes with nothing between them) is left out of the column list.
C6_TokenUnquotedOrDropped ==
  (parsed /\ gen.family = "quoted") =>
     result.columns = NonEmpty(gen.expCols)

C6_Witness ==
  /\ parsed /\ gen.family = "quoted"
  /\ Len(gen.expCols) = 2
  /\ gen.expCols[1] = <<"\"", "a", "\"">>
  /\ gen.expCols[2] = <<"a", " ">>
  /\ result.columns = gen.expCols

\* the characters of a text
Chars(text) == {text[i] : i \in 1..Len(text)}

\* the text is wrapped in a pair of the same quote character
Enclosed(text) ==
  Len(text) >= 2 /\ text[1] \in QuoteChars /\ text[Len(text)] = text[1]

\* C11: for every statement that matches, the table Parse returns is the
\* table as written with the surrounding whitespace, the enclosing quotes
\* and a trailing ; stripped: it is the bare identifier, and holds no
\* whitespace, no ; and no enclosing quotes.
C11_TableStripped ==
  (parsed /\ gen.family = "table") =>
     /\ result.table = gen.expTable
     /\ Chars(result.table) \cap (ReSpace \cup {";"}) = {}
     /\ ~Enclosed(result.table)

\* what the code keeps: whitespace and ; are never part of the table, the
\* quotes the table was written with are
TableAsWritten ==
  (parsed /\ gen.family = "table") =>
     /\ result.table = gen.base
     /\ Chars(result.table) \cap (ReSpace \cup {";"}) = {}

----------------------------------------------------------------------------
(* Claims about the interceptors and the wrappers, checked under Spec      *)

\* what the skeleton of the test renders to
sqlTestSkeleton ==
  <<"S", "E", "L", "E", "C", "T", " ", "*", " ", "F", "R", "O", "M", " ",
    "u", "s", "e", "r", "s", " ", "W", "H", "E", "R", "E", " ", "i", "d",
    " ", "=", " ", "?">>

\* what FindUser sends for the customization of example.go
sqlFindUserExample ==
  <<"S", "E", "L", "E", "C", "T", " ", "i", "d", ",", " ", "n", "a", "m",
    "e", ",", " ", "d", "e", "l", "e", "t", "e", "d", "_", "a", "t", " ",
    "F", "R", "O", "M", " ", "u", "s", "e", "r", "s", " ", "W", "H", "E",
    "R", "E", " ", "d", "e", "l", "e", "t", "e", "d", "_", "a", "t", " ",
    "I", "S", " ", "N", "U", "L", "L", " ", "A", "N", "D", " ", "a", "g",
    "e", " ", ">", "=", " ", "?", " ", "O", "R", "D", "E", "R", " ", "B",
    "Y", " ", "c", "r", "e", "a", "t", "e", "d", "_", "a", "t", " ", "D",
    "E", "S", "C", " ", "L", "I", "M", "I", "T", " ", "1">>

\* the last call was a QueryContext or a QueryRowContext
IsQueryCall == call.method \in {"QueryContext", "QueryRowContext"}

\* the interceptor has no guard, or the statement of the call equals it
Intercepted == icpt.expectedQuery = <<>> \/ call.query = icpt.expectedQuery

Guarded == icpt.kind = "selector" /\ icpt.expectedQuery # <<>>

Renders == ~ToSql(icpt.sb).err

\* the wrapped handle received the call as the caller made it
Forwarded == rawCall = RawCall(call.method, call.query, call.args)

\* the wrapped handle received the rendered skeleton in its place
Overridden ==
  rawCall = RawCall(call.method, ToSql(icpt.sb).sql, ToSql(icpt.sb).args)

\* C1: on an interceptor built by SelectForQuery with a non-empty guard
\* and a skeleton that renders, a QueryContext / QueryRowContext call whose
\* statement differs from the guard reaches the wrapped handle with the
\* caller's statement and args, and one whose statement equals the guard
\* reaches it with the rendered statement and args.
C1_GuardedQuery ==
  (Guarded /\ Renders /\ IsQueryCall) =>
     /\ call.query # icpt.expectedQuery => Forwarded
     /\ call.query = icpt.expectedQuery => Overridden

C1_Witness ==
  /\ Guarded /\ icpt.sb = TestSkeleton /\ icpt.expectedQuery = qExpected
  /\ call = RawCall("QueryContext", qOther, <<2, 1>>)
  /\ rawCall = RawCall("QueryContext", qOther, <<2, 1>>)

C1_WitnessOverride ==
  /\ Guarded /\ icpt.sb = TestSkeleton /\ icpt.expectedQuery = qExpected
  /\ call = RawCall("QueryContext", qExpected, <<2, 1>>)
  /\ rawCall = RawCall("QueryContext", sqlTestSkeleton, <<10>>)

\* C2: on an interceptor without a guard (Select, or SelectForQuery with
\* an empty expected statement) and with a skeleton that renders, every
\* QueryContext / QueryRowContext call reaches the wrapped handle with the
\* rendered statement and args; the caller's statement and args do not.
C2_UnguardedQuery ==
  (icpt.kind # "none" /\ icpt.expectedQuery = <<>> /\ Renders /\ IsQueryCall)
     => (Overridden /\ rawCall.query # call.query)

C2_Witness ==
  /\ icpt = Select(TestSkeleton)
  /\ call = RawCall("QueryRowContext", qOther, <<1, 2>>)
  /\ rawCall = RawCall("QueryRowContext", sqlTestSkeleton, <<10>>)

\* C7 (as claimed): when rendering fails on an intercepted call,
\* QueryContext returns the render error and makes no call on the wrapped
\* handle, and QueryRowContext forwards the caller's statement and args.
C7_RenderFailure ==
  (icpt.kind # "none" /\ Intercepted /\ ~Renders) =>
     /\ call.method = "QueryContext" => (ret = "renderErr" /\ rawCall = NoCall)
     /\ call.method = "QueryRowContext" => (ret = "raw" /\ Forwarded)

\* the same for the selector alone, which the code keeps
SelectorRenderFailure ==
  (icpt.kind = "selector" /\ Intercepted /\ ~Renders) =>
     /\ call.method = "QueryContext" => (ret = "renderErr" /\ rawCall = NoCall)
     /\ call.method = "QueryRowContext" => (ret = "raw" /\ Forwarded)

\* C8 (as claimed): on an interceptor without a guard every ExecContext
\* call reaches the wrapped handle with the rendered statement and args;
\* on a guarded one it reaches it as the caller made it.
C8_ExecPolicy ==
  (icpt.kind # "none" /\ call.method = "ExecContext" /\ Renders) =>
     /\ icpt.expectedQuery = <<>> => Overridden
     /\ icpt.expectedQuery # <<>> => Forwarded

\* what the code does with ExecContext: a selecter overrides it (and
\* panics, calling nothing, when the skeleton does not render); every
\* selector, with or without a guard, so also what the Select of db.go
\* builds, passes it to the wrapped handle as the caller made it.
ExecPolicyByType ==
  (call.method = "ExecContext") =>
     /\ icpt.kind = "selector" => (Forwarded /\ ret = "raw")
     /\ (icpt.kind = "selecter" /\ Renders) => (Overridden /\ ret = "raw")
     /\ (icpt.kind = "selecter" /\ ~Renders) =>
           (rawCall = NoCall /\ ret = "panic")

ExecPassThroughReached ==
  /\ icpt = Select(TestSkeleton)
  /\ call = RawCall("ExecContext", qOther, <<1, 2>>)
  /\ rawCall = RawCall("ExecContext", qOther, <<1, 2>>)

\* C9 (as claimed): PrepareContext on any interceptor forwards the
\* caller's statement unchanged and never the rendered one.
C9_PreparePassThrough ==
  (icpt.kind # "none" /\ call.method = "PrepareContext") => Forwarded

\* the same for the selector alone, which the code keeps
SelectorPreparePassThrough ==
  (icpt.kind = "selector" /\ call.method = "PrepareContext") => Forwarded

\* the base skeleton a wrapper starts from
BaseOf(op) ==
  IF op \in {"ListUsers", "FindUser"} THEN listUsersBuilder
  ELSE listUserPostsBuilder

\* the skeleton the caller's function makes of the base skeleton
Customized(op, fn) ==
  IF fn.isNil THEN BaseOf(op) ELSE ApplySteps(fn.steps, BaseOf(op))

\* C10: FindUser / FindUserPost are the list with Limit(1) applied after
\* the caller's customization; zero rows and no error give the zero value
\* with sql.ErrNoRows, an error of the list is returned unchanged, and
\* otherwise the first row is returned with a nil error.
C10_FindSingle ==
  (api.op \in {"FindUser", "FindUserPost"}) =>
     LET sb == sqLimit(Customized(api.op, api.fn), 1)
         listErr == IF ret = "renderErr" THEN "render error"
                    ELSE IF api.answer.err THEN "db error" ELSE "nil"
     IN  /\ icpt = Select(sb)
         /\ ~ToSql(sb).err =>
               rawCall = RawCall("QueryContext", ToSql(sb).sql, ToSql(sb).args)
         /\ (listErr = "nil" /\ api.answer.n = 0) =>
               api.ret = ApiRet(<<>>, 0, "sql.ErrNoRows")
         /\ listErr # "nil" => api.ret = ApiRet(<<>>, 0, listErr)
         /\ (listErr = "nil" /\ api.answer.n > 0) =>
               api.ret = ApiRet(<<>>, 1, "nil")

C10_Witness ==
  /\ api.op = "FindUser"
  /\ api.fn = Fn(<<"WhereAdult", "OrderByCreatedAt", "Limit10">>)
  /\ rawCall = RawCall("QueryContext", sqlFindUserExample, <<18>>)
  /\ api.answer = [err |-> FALSE, n |-> 0]
  /\ api.ret = ApiRet(<<>>, 0, "sql.ErrNoRows")

\* Parse returned the empty table and no columns for the canonical
\* statement of ListUsers when the program started, and the interceptor is
\* built on the base skeleton made of it: directly, or by ListUsers /
\* FindUser with the caller's customization
OnFailedParse ==
  /\ Parse(listUsers) = NoResult
  /\ icpt.kind = "selector"
  /\ icpt.sb = listUsersBuilder \/ api.op \in {"ListUsers", "FindUser"}

\* C12: if parsing the canonical statement failed at initialization, every
\* intercepted QueryContext and QueryRowContext call on an interceptor
\* built on its base skeleton fails with an error and the wrapped handle
\* receives no statement at all.
C12_FailedParseFailsFast ==
  (OnFailedParse /\ Intercepted /\ IsQueryCall) =>
     (ret = "renderErr" /\ rawCall = NoCall)

\* the half the code keeps: QueryContext, and so the wrappers, which reach
\* the interceptor through QueryContext only
FailedParseQueryFails ==
  (OnFailedParse /\ Intercepted /\ call.method = "QueryContext") =>
     /\ ret = "renderErr" /\ rawCall = NoCall
     /\ api.op # "none" => api.ret = ApiRet(<<>>, 0, "render error")

\* the other half: QueryRowContext hands the wrapped handle the caller's
\* statement, here the canonical statement itself, not overridden
FailedParseQueryRowForwards ==
  (OnFailedParse /\ Intercepted /\ call.method = "QueryRowContext") =>
     (ret = "raw" /\ Forwarded)

----------------------------------------------------------------------------
(* The wrappers step by step, called from several goroutines at once.      *)
(* The package variables listUsersBuilder and listUserPostsBuilder are     *)
(* shared by all of them.                                                  *)

WrapperOps == {"ListUsers", "FindUser", "ListUserPosts", "FindUserPost"}

\* the canonical statement the generated code of a wrapper passes
CanonicalOf(op) ==
  IF op \in {"ListUsers", "FindUser"} THEN listUsers ELSE listUserPosts

\* the function ListUsers / ListUserPosts is called with: the caller's, or
\* for FindUser / FindUserPost the one that applies it and then Limit(1)
InnerFn(op, fn) ==
  IF op \in {"FindUser", "FindUserPost"}
  THEN Fn((IF ~fn.isNil THEN fn.steps ELSE <<>>) \o <<"Limit1">>)
  ELSE fn

\* as if sb := listUsersBuilder shared the builder with the package
\* variable and fn changed it in place
SharedAfter_InPlace(base, sb) == sb

\* the package variable after sb = fn(sb): sb := listUsersBuilder copied
\* the builder, and the builder methods return a new value, so what fn
\* made of sb is not seen in the package variable
SharedAfter(base, sb) == base

\* the functions the goroutines pass: nil, the one of example.go, and one
\* that adds a condition with an argument
GoFns == Fns \ {Fn(<<>>)}

\* sb := listUsersBuilder, on entering the wrapper
Enter(g) ==
  /\ goroutines[g].pc = "idle"
  /\ \E op \in WrapperOps, fn \in GoFns :
        goroutines' = [goroutines EXCEPT ![g] =
           [pc |-> "copied", op |-> op, fn |-> fn, sb |-> BaseOf(op),
            db |-> NoInterceptor, sent |-> NoCall, how |-> "none"]]
  /\ UNCHANGED <<parseVars, baseVars, dbVars>>

\* if fn != nil { sb = fn(sb) }
Customize(g) ==
  LET me == goroutines[g]
      fn == InnerFn(me.op, me.fn)
      sb == IF ~fn.isNil THEN ApplySteps(fn.steps, me.sb) ELSE me.sb
  IN  /\ me.pc = "copied"
      /\ goroutines' = [goroutines EXCEPT ![g].pc = "customized", ![g].sb = sb]
      /\ IF me.op \in {"ListUsers", "FindUser"}
         THEN /\ listUsersBuilder' = SharedAfter(listUsersBuilder, sb)
              /\ UNCHANGED listUserPostsBuilder
         ELSE /\ listUserPostsBuilder' = SharedAfter(listUserPostsBuilder, sb)
              /\ UNCHANGED listUsersBuilder
      /\ UNCHANGED <<parseVars, listUsers, listUserPosts, dbVars>>

\* db = builder.Select(db, sb); q := New(db); q.ListUsers(ctx): both work
\* on the goroutine's own sb and db
RunQuery(g) ==
  /\ goroutines[g].pc = "customized"
  /\ \E answer \in DbAnswers :
        LET db == Select(goroutines[g].sb)
            q == GeneratedList(db, CanonicalOf(goroutines[g].op), answer)
        IN  goroutines' = [goroutines EXCEPT ![g].pc = "sent",
                                            ![g].db = db,
                                            ![g].sent = q.out.raw,
                                            ![g].how = q.out.ret]
  /\ UNCHANGED <<parseVars, baseVars, dbVars>>

\* the wrapper returns
Return(g) ==
  /\ goroutines[g].pc = "sent"
  /\ goroutines' = [goroutines EXCEPT ![g] = IdleGoroutine]
  /\ UNCHANGED <<parseVars, baseVars, dbVars>>

NextCalls ==
  \E g \in Goroutines :
     \/ Enter(g)
     \/ Customize(g)
     \/ RunQuery(g)
     \/ Return(g)

SpecCalls == Init /\ [][NextCalls]_vars

\* the base skeleton the program builds when it starts, by canonical
\* statement
BuiltAtStart ==
  [canonical \in CanonicalListUsers \cup CanonicalListUserPosts |->
     BaseBuilder(canonical)]

\* what the wrapper op, called with fn and alone, right after the program
\* started, hands the wrapped handle
SentAlone(op, fn) ==
  LET canonical == CanonicalOf(op)
      base == BuiltAtStart[canonical]
      answer == [err |-> FALSE, n |-> 0]
  IN  IF op \in {"FindUser", "FindUserPost"}
      THEN FindWith(base, canonical, fn, answer).out.raw
      ELSE ListWith(base, canonical, fn, answer).out.raw

\* C13: after any interleaving of ListUsers / FindUser / ListUserPosts /
\* FindUserPost calls with any customization functions, each base skeleton
\* renders to the statement and args it rendered to at initialization, and
\* what a call hands the wrapped handle is what the same call hands it
\* when made alone: it depends on the base skeleton and the call's own
\* function only.
C13_BasesReadOnly ==
  /\ ToSql(listUsersBuilder) = ToSql(BuiltAtStart[listUsers])
  /\ ToSql(listUserPostsBuilder) = ToSql(BuiltAtStart[listUserPosts])
  /\ \A g \in Goroutines :
        goroutines[g].pc = "sent" =>
           goroutines[g].sent = SentAlone(goroutines[g].op, goroutines[g].fn)

C13_Witness ==
  /\ listUsers = stmtListUsers
  /\ goroutines[1].pc = "sent" /\ goroutines[1].op = "FindUser"
  /\ goroutines[1].fn = Fn(<<"WhereAdult", "OrderByCreatedAt", "Limit10">>)
  /\ goroutines[1].sent = RawCall("QueryContext", sqlFindUserExample, <<18>>)
  /\ goroutines[2].pc = "customized" /\ goroutines[2].op = "ListUsers"
  /\ goroutines[2].fn = Fn(<<"WhereId">>)
  /\ ToSql(listUsersBuilder) = ToSql(BuiltAtStart[stmtListUsers])

====
